---- MODULE Spec2Model ----
(***************************************************************************)
(* ego: a session tracker.  `start <dir>` snapshots the text files of a    *)
(* project directory and persists a session record (.ego_session.json in   *)
(* the working directory); an optional listener thread credits keystroke   *)
(* activity; `end` loads the record, rescans the directory, computes the   *)
(* diff and removes the record.                                            *)
(*                                                                         *)
(* The model keeps the whole filesystem in one variable (disk): project    *)
(* files, directories and the session record are all nodes of it, because  *)
(* the scanners of session.rs see the record like any other file.          *)
(*                                                                         *)
(* Conventions.                                                            *)
(*   Option<T>      None is <<>>, Some(x) is <<x>>.                        *)
(*   Result<T>      a record with a field ok; the payload is meaningful    *)
(*                  only when ok is TRUE.                                  *)
(*   PathBuf        a sequence of path components (strings).               *)
(*   HashSet / Vec of paths: a set (the code never relies on the order).   *)
(*   Instant / DateTime: milliseconds on one clock (now).                  *)
(***************************************************************************)
EXTENDS Integers, Sequences, FiniteSets, TLC

(***************************************************************************)
(* Bounds of the model.                                                    *)
(***************************************************************************)
MaxFsChanges == 2
MaxTicks == 2
MaxStarts == 2
MaxPulses == 2

None == <<>>
Some(x) == <<x>>
IsSome(o) == o # <<>>
Unwrap(o) == o[1]

(***************************************************************************)
(* Names.  A path component is a string; Spelling gives its characters so  *)
(* that starts_with(".") and Path::extension are computed, not assumed.    *)
(***************************************************************************)
Spelling(name) ==
    CASE name = "proj" -> <<"p", "r", "o", "j">>
      [] name = "sub" -> <<"s", "u", "b">>
      [] name = "nope" -> <<"n", "o", "p", "e">>
      [] name = ".git" -> <<".", "g", "i", "t">>
      [] name = ".nope" -> <<".", "n", "o", "p", "e">>
      [] name = "a.py" -> <<"a", ".", "p", "y">>
      [] name = "b.py" -> <<"b", ".", "p", "y">>
      [] name = "c.py" -> <<"c", ".", "p", "y">>
      [] name = "D.MD" -> <<"D", ".", "M", "D">>
      [] name = ".h.py" -> <<".", "h", ".", "p", "y">>
      [] name = "n.bin" -> <<"n", ".", "b", "i", "n">>
      [] name = "a.txt" -> <<"a", ".", "t", "x", "t">>
      [] name = ".ego_session.json" ->
           <<".", "e", "g", "o", "_", "s", "e", "s", "s", "i", "o", "n",
             ".", "j", "s", "o", "n">>

\* str::to_lowercase on the characters the model's names use
LowerChar(ch) ==
    CASE ch = "D" -> "d"
      [] ch = "M" -> "m"
      [] OTHER -> ch

to_lowercase(s) == [i \in 1..Len(s) |-> LowerChar(s[i])]

\* Path::file_name: None when the path ends in "." or ".." (or is empty)
file_name(path) ==
    IF path = <<>> \/ path[Len(path)] \in {".", ".."}
    THEN None
    ELSE Some(path[Len(path)])

Names ==
    { "proj", "sub", "nope", ".git", ".nope", "a.py", "b.py", "c.py", "D.MD",
      ".h.py", "n.bin", "a.txt", ".ego_session.json" }

\* name_str.starts_with("."), for every name at once
DotNames == { n \in Names : Spelling(n)[1] = "." }

\* the test both visit_dirs make on the directory they are given
IsHiddenDir(dir) ==
    /\ IsSome(file_name(dir))
    /\ Unwrap(file_name(dir)) \in DotNames

\* Path::extension: the part after the last '.', None when the name has no
\* '.' or only a leading one
extension(path) ==
    IF ~IsSome(file_name(path)) THEN None
    ELSE LET s == Spelling(Unwrap(file_name(path)))
             dots == {i \in 2..Len(s) : s[i] = "."}
         IN  IF dots = {} THEN None
             ELSE LET last == CHOOSE i \in dots : \A j \in dots : j <= i
                  IN  Some(SubSeq(s, last + 1, Len(s)))

AllowList ==
    { <<"r", "s">>, <<"t", "x", "t">>, <<"m", "d">>, <<"p", "y">>,
      <<"j", "s">>, <<"h", "t", "m", "l">>, <<"c", "s", "s">>, <<"c">>,
      <<"c", "p", "p">>, <<"h">>, <<"h", "p", "p">>,
      <<"j", "a", "v", "a">>, <<"j", "s", "o", "n">>,
      <<"y", "a", "m", "l">>, <<"y", "m", "l">>, <<"t", "o", "m", "l">> }

\* the names whose extension, lower-cased, is in the allow-list
AllowedNames ==
    { n \in Names : /\ IsSome(extension(<<n>>))
                    /\ to_lowercase(Unwrap(extension(<<n>>))) \in AllowList }

HasAllowedExtension(path) ==
    /\ IsSome(file_name(path))
    /\ Unwrap(file_name(path)) \in AllowedNames

(***************************************************************************)
(* The filesystem.  Node keys are paths relative to the working directory. *)
(* A node holds <<"absent">>, <<"dir">>, <<"text", c>> (a file with        *)
(* content c) or <<"json", j>> (the session record, j its JSON text).      *)
(***************************************************************************)
SessionFile == <<".ego_session.json">>

DirNodes == { <<"proj">>, <<"proj", "sub">>, <<"proj", ".git">> }

FileNodes ==
    { <<"proj", "a.py">>, <<"proj", "b.py">>, <<"proj", "sub", "D.MD">>,
      <<"proj", ".git", "c.py">>, <<"proj", ".h.py">>, <<"proj", "n.bin">>,
      <<"a.txt">> }

Nodes == DirNodes \cup FileNodes \cup {SessionFile}

Absent == <<"absent">>
Dir == <<"dir">>
Text(c) == <<"text", c>>
Json(j) == <<"json", j>>

\* File contents: "bin" is not valid UTF-8, the others are text.
Contents == {"t2x20", "t3x35", "t1x5", "bin"}

IsUtf8(c) == c # "bin"

\* str::lines().count() of a content
LineCount(c) ==
    CASE c = "t2x20" -> 2
      [] c = "t3x35" -> 3
      [] c = "t1x5" -> 1

\* str::chars().count() of a content
CharCount(c) ==
    CASE c = "t2x20" -> 20
      [] c = "t3x35" -> 35
      [] c = "t1x5" -> 5

\* a path as the program holds it, resolved against the working directory
\* (the only "." component a path of the model has is a leading one)
Resolve(path) == IF path # <<>> /\ path[1] = "." THEN Tail(path) ELSE path

\* the nodes directly under each directory (<<>> is the working directory)
ChildrenOf ==
    [ dir \in DirNodes \cup {<<>>} |->
        { m \in Nodes : /\ Len(m) = Len(dir) + 1
                        /\ SubSeq(m, 1, Len(m) - 1) = dir } ]

Lookup(d, path) ==
    LET n == Resolve(path)
    IN  IF n = <<>> THEN Dir
        ELSE IF n \in Nodes THEN d[n]
        ELSE Absent

is_dir(d, path) == Lookup(d, path)[1] = "dir"
is_file(d, path) == Lookup(d, path)[1] \in {"text", "json"}
exists(d, path) == Lookup(d, path)[1] # "absent"

\* fs::read_dir(dir): the paths dir/name of the entries present
read_dir(d, dir) ==
    { Append(dir, n[Len(n)]) :
        n \in { m \in ChildrenOf[Resolve(dir)] : d[m][1] # "absent" } }

(***************************************************************************)
(* Arithmetic.  Line counts are i32, character counts and seconds i64; the *)
(* totals of the model's files stay far below both widths, so + and - are  *)
(* the machine's + and -.                                                  *)
(***************************************************************************)
RECURSIVE SumOver(_, _)
SumOver(f(_), S) ==
    IF S = {} THEN 0
    ELSE LET x == CHOOSE y \in S : TRUE
         IN  f(x) + SumOver(f, S \ {x})

(***************************************************************************)
(* The JSON text of the record (serde_json::to_string of a Session): one   *)
(* line, the twelve serialized fields in declaration order.  A value is    *)
(* <<"ts", t>>, <<"str", path>>, <<"num", n>>, <<"arr", paths>> or         *)
(* <<"null">>.  The three #[serde(skip)] fields are not written.           *)
(***************************************************************************)
\* Faulty variant of JsonOptNum: None is written as the number 0.
JsonOptNumZero(o) == IF IsSome(o) THEN <<"num", Unwrap(o)>> ELSE <<"num", 0>>

\* an Option<i32> / Option<i64> field as serde writes it
JsonOptNum(o) == IF IsSome(o) THEN <<"num", Unwrap(o)>> ELSE <<"null">>
JsonOptArr(o) == IF IsSome(o) THEN <<"arr", Unwrap(o)>> ELSE <<"null">>

\* Faulty variant of Serialize: initial_char_count is written from the
\* line count.
SerializeMixedUp(s) ==
    << <<"start_time", <<"ts", s.start_time>> >>,
       <<"project_directory", <<"str", s.project_directory>> >>,
       <<"initial_line_count", <<"num", s.initial_line_count>> >>,
       <<"initial_char_count", <<"num", s.initial_line_count>> >>,
       <<"final_line_count", JsonOptNum(s.final_line_count)>>,
       <<"final_char_count", JsonOptNum(s.final_char_count)>>,
       <<"lines_written", JsonOptNum(s.lines_written)>>,
       <<"chars_written", JsonOptNum(s.chars_written)>>,
       <<"files_created", JsonOptArr(s.files_created)>>,
       <<"files_modified", JsonOptArr(s.files_modified)>>,
       <<"files_deleted", JsonOptArr(s.files_deleted)>>,
       <<"active_time_seconds", <<"num", s.active_time_seconds>> >> >>

Serialize(s) ==
    << <<"start_time", <<"ts", s.start_time>> >>,
       <<"project_directory", <<"str", s.project_directory>> >>,
       <<"initial_line_count", <<"num", s.initial_line_count>> >>,
       <<"initial_char_count", <<"num", s.initial_char_count>> >>,
       <<"final_line_count", JsonOptNum(s.final_line_count)>>,
       <<"final_char_count", JsonOptNum(s.final_char_count)>>,
       <<"lines_written", JsonOptNum(s.lines_written)>>,
       <<"chars_written", JsonOptNum(s.chars_written)>>,
       <<"files_created", JsonOptArr(s.files_created)>>,
       <<"files_modified", JsonOptArr(s.files_modified)>>,
       <<"files_deleted", JsonOptArr(s.files_deleted)>>,
       <<"active_time_seconds", <<"num", s.active_time_seconds>> >> >>

JsonField(j, key) ==
    LET i == CHOOSE k \in 1..Len(j) : j[k][1] = key
    IN  j[i][2]

ParseOpt(v) == IF v[1] = "null" THEN None ELSE Some(v[2])

\* serde_json::from_str::<Session>: the skipped fields take their Default
Deserialize(j) ==
    [ start_time |-> JsonField(j, "start_time")[2],
      project_directory |-> JsonField(j, "project_directory")[2],
      initial_line_count |-> JsonField(j, "initial_line_count")[2],
      initial_char_count |-> JsonField(j, "initial_char_count")[2],
      final_line_count |-> ParseOpt(JsonField(j, "final_line_count")),
      final_char_count |-> ParseOpt(JsonField(j, "final_char_count")),
      lines_written |-> ParseOpt(JsonField(j, "lines_written")),
      chars_written |-> ParseOpt(JsonField(j, "chars_written")),
      files_created |-> ParseOpt(JsonField(j, "files_created")),
      files_modified |-> ParseOpt(JsonField(j, "files_modified")),
      files_deleted |-> ParseOpt(JsonField(j, "files_deleted")),
      active_time_seconds |-> JsonField(j, "active_time_seconds")[2],
      initial_files |-> None,
      last_activity |-> None,
      initial_file_hashes |-> None ]

RECURSIVE Digits(_)
Digits(n) ==
    IF n < 0 THEN 1 + Digits(-n)
    ELSE IF n < 10 THEN 1
    ELSE 1 + Digits(n \div 10)

PathChars(path) ==
    LET comp(i) == Len(Spelling(path[i]))
    IN  IF path = <<".">> THEN 1
        ELSE SumOver(comp, 1..Len(path)) + (Len(path) - 1)

JsonValueChars(v) ==
    LET quoted(p) == PathChars(p) + 2
    IN  CASE v[1] = "ts" -> 37
          [] v[1] = "str" -> PathChars(v[2]) + 2
          [] v[1] = "num" -> Digits(v[2])
          [] v[1] = "null" -> 4
          [] v[1] = "arr" ->
               2 + SumOver(quoted, v[2])
                 + (IF v[2] = {} THEN 0 ELSE Cardinality(v[2]) - 1)

\* the number of characters of the JSON text: 229 for the braces, the
\* twelve quoted keys, the colons and the commas, plus the values
JsonChars(j) ==
    LET val(i) == JsonValueChars(j[i][2])
    IN  229 + SumOver(val, 1..Len(j))

(***************************************************************************)
(* Reading files.                                                          *)
(***************************************************************************)
\* fs::read_to_string(path): Some(content) or None (Err: missing, a
\* directory, or not valid UTF-8)
read_to_string(d, path) ==
    LET v == Lookup(d, path)
    IN  IF v[1] = "json" THEN Some(v)
        ELSE IF v[1] = "text" /\ IsUtf8(v[2]) THEN Some(v)
        ELSE None

\* content.lines().count() and content.chars().count() of a read content
lines_count(v) == IF v[1] = "json" THEN 1 ELSE LineCount(v[2])
chars_count(v) == IF v[1] = "json" THEN JsonChars(v[2]) ELSE CharCount(v[2])

\* DefaultHasher over the content, formatted as hex: a function of the
\* content alone (fixed keys), stable across runs
Hash(v) == <<"hash", v>>

\* Session::compute_file_hashes: unreadable files get no entry; never fails
compute_file_hashes(d, files) ==
    [ p \in { q \in files : IsSome(read_to_string(d, q)) } |->
        Hash(Unwrap(read_to_string(d, p))) ]

(***************************************************************************)
(* The two directory walks.                                                *)
(***************************************************************************)
\* scan_files::visit_dirs
RECURSIVE scan_visit_dirs(_, _)
scan_visit_dirs(d, dir) ==
    IF IsHiddenDir(dir) THEN [ok |-> TRUE, files |-> {}]
    ELSE IF ~is_dir(d, dir) THEN [ok |-> FALSE, files |-> {}]
    ELSE LET entries == read_dir(d, dir)
             subs == { scan_visit_dirs(d, e) : e \in { x \in entries : is_dir(d, x) } }
             here == { e \in entries : /\ ~is_dir(d, e)
                                       /\ is_file(d, e)
                                       /\ HasAllowedExtension(e) }
         IN  [ ok |-> \A r \in subs : r.ok,
               files |-> here \cup UNION { r.files : r \in subs } ]

\* Session::scan_files
scan_files(d, dir) == scan_visit_dirs(d, dir)

\* count_all_content::visit_dirs
RECURSIVE count_visit_dirs(_, _)
count_visit_dirs(d, dir) ==
    IF IsHiddenDir(dir) THEN [ok |-> TRUE, lines |-> 0, chars |-> 0]
    ELSE IF ~is_dir(d, dir) THEN [ok |-> FALSE, lines |-> 0, chars |-> 0]
    ELSE LET entries == read_dir(d, dir)
             subdirs == { x \in entries : is_dir(d, x) }
             here == { e \in entries : /\ ~is_dir(d, e)
                                       /\ is_file(d, e)
                                       /\ HasAllowedExtension(e)
                                       /\ IsSome(read_to_string(d, e)) }
             sub == [x \in subdirs |-> count_visit_dirs(d, x)]
             subLines(x) == sub[x].lines
             subChars(x) == sub[x].chars
             fileLines(e) == lines_count(Unwrap(read_to_string(d, e)))
             fileChars(e) == chars_count(Unwrap(read_to_string(d, e)))
         IN  [ ok |-> \A x \in subdirs : sub[x].ok,
               lines |-> SumOver(fileLines, here) + SumOver(subLines, subdirs),
               chars |-> SumOver(fileChars, here) + SumOver(subChars, subdirs) ]

\* Session::count_all_content
count_all_content(d, dir) == count_visit_dirs(d, dir)

(***************************************************************************)
(* Session methods.                                                        *)
(***************************************************************************)
\* Session::new at time t: Err when a walk fails
SessionNew(d, project_path, t) ==
    LET scan == scan_files(d, project_path)
        hashes == compute_file_hashes(d, scan.files)
        cnt == count_all_content(d, project_path)
    IN  IF ~scan.ok \/ ~cnt.ok THEN [ok |-> FALSE, session |-> None]
        ELSE [ ok |-> TRUE,
               session |-> Some(
                 [ start_time |-> t,
                   project_directory |-> project_path,
                   initial_line_count |-> cnt.lines,
                   initial_char_count |-> cnt.chars,
                   final_line_count |-> None,
                   final_char_count |-> None,
                   lines_written |-> None,
                   chars_written |-> None,
                   files_created |-> None,
                   files_modified |-> None,
                   files_deleted |-> None,
                   active_time_seconds |-> 0,
                   initial_files |-> Some(scan.files),
                   initial_file_hashes |-> Some(hashes),
                   last_activity |-> Some(t) ]) ]

\* Faulty variant of remove_file: the file is left in place.
remove_file_kept(d, path) == d

\* fs::remove_file(path) on a file that exists
remove_file(d, path) == [d EXCEPT ![Resolve(path)] = Absent]

\* Faulty variant of Save: an existing record is left as it is.
SaveKeepsExisting(d, s) ==
    IF d[SessionFile] # Absent THEN d
    ELSE [d EXCEPT ![SessionFile] = Json(Serialize(s))]

\* Session::save: the disk after fs::write(".ego_session.json", json)
Save(d, s) == [d EXCEPT ![SessionFile] = Json(Serialize(s))]

\* Faulty variant of LoadMissing: a missing record is an error.
LoadMissingErr == [ok |-> FALSE, session |-> None]

\* what Session::load returns when the record does not exist (line 80)
LoadMissing == [ok |-> TRUE, session |-> None]

\* Session::load at time t: Ok(None) when the record is missing, Err when
\* the project directory cannot be scanned, else Ok(Some(session))
Load(d, t) ==
    IF ~exists(d, SessionFile) THEN LoadMissing
    ELSE LET parsed == Deserialize(d[SessionFile][2])
             scan == scan_files(d, parsed.project_directory)
         IN  IF ~scan.ok THEN [ok |-> FALSE, session |-> None]
             ELSE [ ok |-> TRUE,
                    session |-> Some(
                      [ parsed EXCEPT
                          !.initial_files = Some(scan.files),
                          !.initial_file_hashes =
                              Some(compute_file_hashes(d, scan.files)),
                          !.last_activity = Some(t) ]) ]

\* Faulty variant of IsModified: a path without a hash on either side counts
\* as modified.
IsModifiedOrMissing(initial_hashes, current_file_hashes, path) ==
    IF path \in DOMAIN initial_hashes /\ path \in DOMAIN current_file_hashes
    THEN initial_hashes[path] # current_file_hashes[path]
    ELSE TRUE

\* the closure of the filter in Session::end (lines 109-117)
IsModified(initial_hashes, current_file_hashes, path) ==
    IF path \in DOMAIN initial_hashes /\ path \in DOMAIN current_file_hashes
    THEN initial_hashes[path] # current_file_hashes[path]
    ELSE FALSE

\* Faulty variant of Written: an unsigned difference, clamped at 0.
WrittenClamped(final_count, initial_count) ==
    IF final_count >= initial_count THEN final_count - initial_count ELSE 0

\* the subtractions of Session::end (lines 90-91), signed
Written(final_count, initial_count) == final_count - initial_count

\* Session::end on session s: the session as end leaves it, the two locals
\* current_files / current_file_hashes, and whether it got as far as
\* fs::remove_file (ok).  The removal itself is the caller's disk update.
End(d, s) ==
    LET cnt == count_all_content(d, s.project_directory)
        scan == scan_files(d, s.project_directory)
        current_files == scan.files
        current_file_hashes == compute_file_hashes(d, current_files)
        counted == [ s EXCEPT
                       !.final_line_count = Some(cnt.lines),
                       !.final_char_count = Some(cnt.chars),
                       !.lines_written =
                           Some(Written(cnt.lines, s.initial_line_count)),
                       !.chars_written =
                           Some(Written(cnt.chars, s.initial_char_count)) ]
        diffed ==
            IF IsSome(s.initial_files) /\ IsSome(s.initial_file_hashes)
            THEN LET initial_files == Unwrap(s.initial_files)
                     initial_hashes == Unwrap(s.initial_file_hashes)
                     common_files == initial_files \cap current_files
                 IN  [ counted EXCEPT
                         !.files_created = Some(current_files \ initial_files),
                         !.files_deleted = Some(initial_files \ current_files),
                         !.files_modified =
                             Some({ p \in common_files :
                                      IsModified(initial_hashes,
                                                 current_file_hashes, p) }) ]
            ELSE counted
    IN  IF ~cnt.ok THEN [ok |-> FALSE, session |-> s,
                         current_files |-> {}, current_file_hashes |-> <<>>]
        ELSE IF ~scan.ok THEN [ok |-> FALSE, session |-> counted,
                               current_files |-> {}, current_file_hashes |-> <<>>]
        ELSE IF ~exists(d, SessionFile)
             THEN [ok |-> FALSE, session |-> diffed,
                   current_files |-> current_files,
                   current_file_hashes |-> current_file_hashes]
        ELSE [ok |-> TRUE, session |-> diffed,
              current_files |-> current_files,
              current_file_hashes |-> current_file_hashes]

\* Duration::as_secs of a span of milliseconds
as_secs(ms) == ms \div 1000

\* Faulty variant of IsActiveGap: the cutoff itself still counts as active.
IsActiveGapInclusive(secs) == secs <= 300

\* the idle cutoff test of record_activity (line 134)
IsActiveGap(secs) == secs < 300

\* Faulty variant of RecordActivity: the elapsed seconds, and one more, are
\* taken off the active time.
RecordActivityCountdown(s, t) ==
    [ s EXCEPT !.active_time_seconds =
                   @ - 1 - as_secs(t - Unwrap(s.last_activity)),
               !.last_activity = Some(t) ]

\* Session::record_activity at time t
RecordActivity(s, t) ==
    LET elapsed == t - Unwrap(s.last_activity)
        credited ==
            IF IsSome(s.last_activity) /\ IsActiveGap(as_secs(elapsed))
            THEN s.active_time_seconds + as_secs(elapsed)
            ELSE s.active_time_seconds
    IN  [ s EXCEPT !.active_time_seconds = credited,
                   !.last_activity = Some(t) ]

(***************************************************************************)
(* State.                                                                  *)
(*   disk       the filesystem, the session record included                *)
(*   now        the clock, in milliseconds                                 *)
(*   started    the Session the last successful `start` built (main.rs:39) *)
(*   startDisk  the filesystem as that `start` scanned it                  *)
(*   phase      the session state of spec section 4.6: "NotStarted", then  *)
(*              "Open" from a successful start to the next successful end, *)
(*              "Ended" after it                                           *)
(*   endProc    the running / last `end` invocation: its position, its     *)
(*              session and the locals of Session::end                     *)
(*   listener   the activity thread of `start --track-activity`            *)
(*   pulses     the times of the key presses the listener has handled      *)
(*              since the last successful start                            *)
(*   out        the command the step just taken ran, its argument, how it  *)
(*              exited and what it printed (NoOutput when the step was not *)
(*              a command)                                                 *)
(*   used       how much of each bound the run has used                    *)
(*   walk       a directory walk (visit_dirs) in progress, step by step:   *)
(*              its call stack and what it has collected so far            *)
(***************************************************************************)
VARIABLES disk, now, started, startDisk, phase, endProc, listener, pulses, out,
          used, walk

vars ==
    <<disk, now, started, startDisk, phase, endProc, listener, pulses, out, used,
      walk>>

\* the project roots `start` is tried with
Roots == { <<".">>, <<"proj">>, <<"nope">>, <<".nope">>, <<"a.txt">> }

\* the files and directories the environment edits while a session runs
MutableFiles == { <<"proj", "a.py">>, <<"proj", "b.py">> }
Writes ==
    { << <<"proj", "a.py">>, "t3x35" >>, << <<"proj", "a.py">>, "bin" >>,
      << <<"proj", "b.py">>, "t1x5" >> }
RemovableDirs == { <<"proj", "sub">>, <<"proj">> }
\* the clock's steps, in order: the gaps of the scenario of spec section 8
\* (10 s, then 390 s), then steps just past the 60 s autosave interval
TickStep(i) ==
    CASE i = 0 -> 10000
      [] i = 1 -> 390000
      [] OTHER -> 61000
Keys == {"char", "ctrl-c"}

IsPrefix(a, b) == Len(a) <= Len(b) /\ SubSeq(b, 1, Len(a)) = a

InitDisk ==
    [ n \in Nodes |->
        CASE n \in DirNodes -> Dir
          [] n = <<"proj", "a.py">> -> Text("t2x20")
          [] n = <<"proj", "b.py">> -> Absent
          [] n = SessionFile -> Absent
          [] OTHER -> Text("t1x5") ]

IdleEnd ==
    [ pc |-> "idle", session |-> None,
      current_files |-> {}, current_file_hashes |-> <<>> ]

IdleListener ==
    [ alive |-> FALSE, pc |-> "poll", last_save |-> 0, session |-> None,
      key |-> "char" ]

NoOutput == [cmd |-> "none", arg |-> <<>>, exit |-> "ok", msg |-> ""]

IdleWalk ==
    [ kind |-> "scan", pc |-> "idle", root |-> <<>>, ok |-> TRUE, stack |-> <<>>,
      files |-> {}, lines |-> 0, chars |-> 0 ]

Init ==
    /\ disk = InitDisk
    /\ now = 0
    /\ started = None
    /\ startDisk = InitDisk
    /\ phase = "NotStarted"
    /\ endProc = IdleEnd
    /\ listener = IdleListener
    /\ pulses = <<>>
    /\ out = NoOutput
    /\ used = [changes |-> 0, ticks |-> 0, starts |-> 0, pulses |-> 0]
    /\ walk = IdleWalk

(***************************************************************************)
(* The environment: edits of project files, and time passing.             *)
(***************************************************************************)
WriteFile(p, c) ==
    /\ used.changes < MaxFsChanges
    /\ is_dir(disk, SubSeq(p, 1, Len(p) - 1))
    /\ disk[p] # Text(c)
    /\ disk' = [disk EXCEPT ![p] = Text(c)]
    /\ used' = [used EXCEPT !.changes = @ + 1]
    /\ out' = NoOutput
    /\ UNCHANGED <<walk, now, started, startDisk, phase, endProc, listener, pulses>>

DeleteFile(p) ==
    /\ used.changes < MaxFsChanges
    /\ disk[p] # Absent
    /\ disk' = [disk EXCEPT ![p] = Absent]
    /\ used' = [used EXCEPT !.changes = @ + 1]
    /\ out' = NoOutput
    /\ UNCHANGED <<walk, now, started, startDisk, phase, endProc, listener, pulses>>

RemoveDir(dir) ==
    /\ used.changes < MaxFsChanges
    /\ disk[dir] = Dir
    /\ disk' = [n \in Nodes |-> IF IsPrefix(dir, n) THEN Absent ELSE disk[n]]
    /\ used' = [used EXCEPT !.changes = @ + 1]
    /\ out' = NoOutput
    /\ UNCHANGED <<walk, now, started, startDisk, phase, endProc, listener, pulses>>

Tick ==
    /\ used.ticks < MaxTicks
    /\ now' = now + TickStep(used.ticks)
    /\ used' = [used EXCEPT !.ticks = @ + 1]
    /\ out' = NoOutput
    /\ UNCHANGED <<walk, disk, started, startDisk, phase, endProc, listener, pulses>>

(***************************************************************************)
(* `start <root> [--track-activity]`  (main.rs:35-82).  Commands run one   *)
(* at a time from the shell: a start begins when the previous start and    *)
(* the previous end have exited (their memory is gone).                    *)
(***************************************************************************)
Start(root, track_activity) ==
    LET r == SessionNew(disk, root, now)
    IN  /\ used.starts < MaxStarts
        /\ ~listener.alive
        /\ endProc.pc # "loaded"
        /\ IF r.ok
           THEN /\ disk' = Save(disk, Unwrap(r.session))
                /\ started' = r.session
                /\ startDisk' = disk
                /\ phase' = "Open"
                /\ pulses' = <<>>
                /\ listener' = [IdleListener EXCEPT !.alive = track_activity,
                                                    !.last_save = now]
                /\ out' = [cmd |-> "start", arg |-> root, exit |-> "ok",
                           msg |-> "Session started in directory"]
           ELSE /\ out' = [cmd |-> "start", arg |-> root, exit |-> "err",
                           msg |-> ""]
                /\ UNCHANGED <<disk, started, startDisk, phase, pulses, listener>>
        /\ endProc' = IdleEnd
        /\ used' = [used EXCEPT !.starts = @ + 1]
        /\ UNCHANGED <<now, walk>>

(***************************************************************************)
(* The activity listener (main.rs:48-80).  One key press is handled in two *)
(* steps, the load (with record_activity, which touches memory only) and   *)
(* the save, because other processes may touch the disk in between.        *)
(***************************************************************************)
ListenerKey(key) ==
    LET r == Load(disk, now)
    IN  /\ listener.alive
        /\ listener.pc = "poll"
        /\ used.pulses < MaxPulses
        /\ used' = [used EXCEPT !.pulses = @ + 1]
        /\ pulses' = Append(pulses, now)
        /\ IF ~r.ok
           THEN listener' = [listener EXCEPT !.alive = FALSE]
           ELSE IF IsSome(r.session)
           THEN listener' = [listener EXCEPT
                               !.pc = "loaded",
                               !.key = key,
                               !.session =
                                   Some(RecordActivity(Unwrap(r.session), now))]
           ELSE listener' = [listener EXCEPT !.alive = (key # "ctrl-c")]
        /\ out' = NoOutput
        /\ UNCHANGED <<walk, disk, now, started, startDisk, phase, endProc>>

ListenerSave ==
    /\ listener.alive
    /\ listener.pc = "loaded"
    /\ IF as_secs(now - listener.last_save) > 60
       THEN /\ disk' = Save(disk, Unwrap(listener.session))
            /\ listener' = [listener EXCEPT !.pc = "poll",
                                            !.session = None,
                                            !.last_save = now,
                                            !.alive = (listener.key # "ctrl-c")]
       ELSE /\ disk' = disk
            /\ listener' = [listener EXCEPT !.pc = "poll",
                                            !.session = None,
                                            !.alive = (listener.key # "ctrl-c")]
    /\ out' = NoOutput
    /\ UNCHANGED <<walk, now, started, startDisk, phase, endProc, pulses, used>>

\* main returns after spawning the thread (main.rs:96): the process exits
\* and the thread with it
MainExit ==
    /\ listener.alive
    /\ listener' = [listener EXCEPT !.alive = FALSE, !.pc = "poll",
                                    !.session = None]
    /\ out' = NoOutput
    /\ UNCHANGED <<walk, disk, now, started, startDisk, phase, endProc, pulses, used>>

(***************************************************************************)
(* `end`  (main.rs:83-93), in two steps: Session::load, then Session::end  *)
(* and the report.                                                         *)
(***************************************************************************)
EndLoad ==
    LET r == Load(disk, now)
    IN  /\ endProc.pc # "loaded"
        /\ IF ~r.ok
           THEN /\ endProc' = IdleEnd
                /\ out' = [cmd |-> "end", arg |-> <<>>, exit |-> "err", msg |-> ""]
           ELSE IF IsSome(r.session)
           THEN /\ endProc' = [IdleEnd EXCEPT !.pc = "loaded",
                                              !.session = r.session]
                /\ out' = [cmd |-> "end", arg |-> <<>>, exit |-> "running", msg |-> ""]
           ELSE /\ endProc' = IdleEnd
                /\ out' = [cmd |-> "end", arg |-> <<>>, exit |-> "ok",
                           msg |-> "No active session found."]
        /\ UNCHANGED <<walk, disk, now, started, startDisk, phase, listener, pulses, used>>

\* Faulty variant of EndFinish: the record is removed before the counting
\* and the scan, so also when they fail.
EndFinishRemovesFirst ==
    LET r == End(disk, Unwrap(endProc.session))
    IN  /\ endProc.pc = "loaded"
        /\ disk' = remove_file(disk, SessionFile)
        /\ IF r.ok
           THEN /\ phase' = "Ended"
                /\ endProc' = [ pc |-> "done", session |-> Some(r.session),
                                current_files |-> r.current_files,
                                current_file_hashes |-> r.current_file_hashes ]
                /\ out' = [cmd |-> "end", arg |-> <<>>, exit |-> "ok",
                           msg |-> "Session Stats"]
           ELSE /\ phase' = phase
                /\ endProc' = IdleEnd
                /\ out' = [cmd |-> "end", arg |-> <<>>, exit |-> "err", msg |-> ""]
        /\ UNCHANGED <<walk, now, started, startDisk, listener, pulses, used>>

EndFinish ==
    LET r == End(disk, Unwrap(endProc.session))
    IN  /\ endProc.pc = "loaded"
        /\ IF r.ok
           THEN /\ disk' = remove_file(disk, SessionFile)
                /\ phase' = "Ended"
                /\ endProc' = [ pc |-> "done", session |-> Some(r.session),
                                current_files |-> r.current_files,
                                current_file_hashes |-> r.current_file_hashes ]
                /\ out' = [cmd |-> "end", arg |-> <<>>, exit |-> "ok",
                           msg |-> "Session Stats"]
           ELSE /\ disk' = disk
                /\ phase' = phase
                /\ endProc' = IdleEnd
                /\ out' = [cmd |-> "end", arg |-> <<>>, exit |-> "err", msg |-> ""]
        /\ UNCHANGED <<walk, now, started, startDisk, listener, pulses, used>>

(***************************************************************************)
(* Specifications.  Spec is the session life cycle against a changing      *)
(* project tree: start, edits of the tree, end.  SpecActivity is the life  *)
(* cycle with the listener thread and the clock running.                   *)
(***************************************************************************)
Next ==
    \/ \E w \in Writes : WriteFile(w[1], w[2])
    \/ \E p \in MutableFiles : DeleteFile(p)
    \/ \E dir \in RemovableDirs : RemoveDir(dir)
    \/ \E root \in Roots : Start(root, FALSE)
    \/ EndLoad
    \/ EndFinish

Spec == Init /\ [][Next]_vars

ActivityRoots == { <<"proj">> }

NextActivity ==
    \/ Tick
    \/ \E root \in ActivityRoots : Start(root, TRUE)
    \/ \E key \in Keys : ListenerKey(key)
    \/ ListenerSave
    \/ MainExit
    \/ EndLoad
    \/ EndFinish

SpecActivity == Init /\ [][NextActivity]_vars

(***************************************************************************)
(* SpecClock drives Session::record_activity alone: one Session held in    *)
(* memory (listener.session), built by Session::new and now and then       *)
(* replaced by a fresh Session::load, receives pulses while the clock      *)
(* advances by steps on either side of the idle cutoff.                    *)
(***************************************************************************)
ClockSteps == {400, 1000, 299000, 299999, 300000, 301000}

InitClock ==
    /\ disk = Save(InitDisk, Unwrap(SessionNew(InitDisk, <<"proj">>, 0).session))
    /\ now = 0
    /\ started = SessionNew(InitDisk, <<"proj">>, 0).session
    /\ startDisk = InitDisk
    /\ phase = "Open"
    /\ endProc = IdleEnd
    /\ listener = [IdleListener EXCEPT !.alive = TRUE, !.pc = "loaded",
                                       !.session = started]
    /\ pulses = <<>>
    /\ out = NoOutput
    /\ used = [changes |-> 0, ticks |-> 0, starts |-> 0, pulses |-> 0]
    /\ walk = IdleWalk

Elapse(ms) ==
    /\ used.ticks < MaxTicks
    /\ now' = now + ms
    /\ used' = [used EXCEPT !.ticks = @ + 1]
    /\ UNCHANGED <<walk, disk, started, startDisk, phase, endProc, listener, pulses, out>>

Pulse ==
    /\ used.pulses < MaxPulses
    /\ listener' = [listener EXCEPT
                      !.session = Some(RecordActivity(Unwrap(listener.session), now))]
    /\ pulses' = Append(pulses, now)
    /\ used' = [used EXCEPT !.pulses = @ + 1]
    /\ UNCHANGED <<walk, disk, now, started, startDisk, phase, endProc, out>>

Reload ==
    /\ listener' = [listener EXCEPT !.session = Load(disk, now).session]
    /\ UNCHANGED <<walk, disk, now, started, startDisk, phase, endProc, pulses, out,
                   used>>

NextClock ==
    \/ \E ms \in ClockSteps : Elapse(ms)
    \/ Pulse
    \/ Reload

SpecClock == InitClock /\ [][NextClock]_vars

(***************************************************************************)
(* SpecWalk unfolds one directory walk into the steps of visit_dirs, with  *)
(* the environment editing the tree between them: the call of visit_dirs   *)
(* on a directory (the hidden-name test and fs::read_dir), one turn of its *)
(* for loop per entry, and its return.  walk.stack is the call stack, one  *)
(* frame per visit_dirs call: the directory, whether fs::read_dir has run, *)
(* and the entries the loop has still to visit.  fs::read_dir yields the   *)
(* entries in no particular order.  An Err leaves through every `?` on the *)
(* stack and ends the walk.                                                *)
(***************************************************************************)
WalkKinds == {"scan", "count"}
WalkRoots == { <<"proj">> }

Frame(dir) == [dir |-> dir, entered |-> FALSE, todo |-> {}]

Top == walk.stack[Len(walk.stack)]

\* visit_dirs returns Ok(()) to its caller; the outermost return ends the
\* walk
WalkReturned(w) ==
    LET rest == SubSeq(w.stack, 1, Len(w.stack) - 1)
    IN  [w EXCEPT !.stack = rest,
                  !.pc = IF rest = <<>> THEN "done" ELSE "run"]

\* scan_files / count_all_content call visit_dirs on the root
WalkBegin(kind, root) ==
    /\ walk.pc # "run"
    /\ walk' = [IdleWalk EXCEPT !.kind = kind, !.pc = "run", !.root = root,
                                !.stack = <<Frame(root)>>]
    /\ out' = NoOutput
    /\ UNCHANGED <<disk, now, started, startDisk, phase, endProc, listener,
                   pulses, used>>

\* the head of visit_dirs: the hidden-name test, then fs::read_dir(dir)?
WalkEnter ==
    /\ walk.pc = "run"
    /\ ~Top.entered
    /\ walk' =
          IF IsHiddenDir(Top.dir) THEN WalkReturned(walk)
          ELSE IF ~is_dir(disk, Top.dir)
          THEN [walk EXCEPT !.pc = "done", !.ok = FALSE, !.stack = <<>>]
          ELSE [walk EXCEPT ![ "stack" ][Len(walk.stack)] =
                               [ dir |-> Top.dir, entered |-> TRUE,
                                 todo |-> read_dir(disk, Top.dir) ]]
    /\ out' = NoOutput
    /\ UNCHANGED <<disk, now, started, startDisk, phase, endProc, listener,
                   pulses, used>>

\* one turn of the for loop of visit_dirs
WalkEntry ==
    /\ walk.pc = "run"
    /\ Top.entered
    /\ \E e \in Top.todo :
          LET rest == [walk EXCEPT ![ "stack" ][Len(walk.stack)].todo = @ \ {e}]
              content == read_to_string(disk, e)
          IN  walk' =
                IF is_dir(disk, e)
                THEN [rest EXCEPT !.stack = Append(@, Frame(e))]
                ELSE IF is_file(disk, e) /\ HasAllowedExtension(e)
                THEN IF walk.kind = "scan"
                     THEN [rest EXCEPT !.files = @ \cup {e}]
                     ELSE IF IsSome(content)
                     THEN [rest EXCEPT
                             !.lines = @ + lines_count(Unwrap(content)),
                             !.chars = @ + chars_count(Unwrap(content))]
                     ELSE rest
                ELSE rest
    /\ out' = NoOutput
    /\ UNCHANGED <<disk, now, started, startDisk, phase, endProc, listener,
                   pulses, used>>

\* the for loop is over: Ok(())
WalkReturn ==
    /\ walk.pc = "run"
    /\ Top.entered
    /\ Top.todo = {}
    /\ walk' = WalkReturned(walk)
    /\ out' = NoOutput
    /\ UNCHANGED <<disk, now, started, startDisk, phase, endProc, listener,
                   pulses, used>>

NextWalk ==
    \/ \E w \in Writes : WriteFile(w[1], w[2])
    \/ \E p \in MutableFiles : DeleteFile(p)
    \/ \E dir \in RemovableDirs : RemoveDir(dir)
    \/ \E kind \in WalkKinds, root \in WalkRoots : WalkBegin(kind, root)
    \/ WalkEnter
    \/ WalkEntry
    \/ WalkReturn

SpecWalk == Init /\ [][NextWalk]_vars

(***************************************************************************)
(* SpecRestart is `start` run again and again, with no `end` in between,   *)
(* while the clock advances and the tree is edited.                        *)
(***************************************************************************)
RestartRoots == { <<"proj">>, <<".">> }

NextRestart ==
    \/ Tick
    \/ \E w \in Writes : WriteFile(w[1], w[2])
    \/ \E p \in MutableFiles : DeleteFile(p)
    \/ \E root \in RestartRoots : Start(root, FALSE)

SpecRestart == Init /\ [][NextRestart]_vars

(***************************************************************************)
(* Properties.                                                             *)
(*                                                                         *)
(* Vocabulary shared by the properties below.                              *)
(***************************************************************************)
\* the step in which Session::end succeeds
EndStep == endProc.pc = "loaded" /\ endProc'.pc = "done"

\* the step in which the end command's Session::load returns a session
LoadStep == endProc.pc # "loaded" /\ endProc'.pc = "loaded"

\* the step in which the end command is invoked (its load runs)
EndInvoked == out'.cmd = "end" /\ endProc.pc # "loaded"

\* the session a successful end has produced
EndDone == endProc.pc = "done"
Ended == Unwrap(endProc.session)

\* In-scope files, stated on the tree as a whole (glossary): a regular file
\* under root whose extension is in the allow-list and which is not inside
\* a hidden-named directory (root itself included).
InScopePaths(d, root) ==
    LET base == Resolve(root)
    IN  IF IsHiddenDir(root) \/ ~is_dir(d, root) THEN {}
        ELSE { root \o SubSeq(n, Len(base) + 1, Len(n)) :
                 n \in { m \in Nodes :
                           /\ Len(m) > Len(base)
                           /\ IsPrefix(base, m)
                           /\ d[m][1] \in {"text", "json"}
                           /\ m[Len(m)] \in AllowedNames
                           /\ \A i \in (Len(base) + 1)..(Len(m) - 1) :
                                 /\ m[i] \notin DotNames
                                 /\ d[SubSeq(m, 1, i)] = Dir } }

ReadablePaths(d, root) ==
    { p \in InScopePaths(d, root) : IsSome(read_to_string(d, p)) }

TotalLines(d, root) ==
    LET n(p) == lines_count(Lookup(d, p))
    IN  SumOver(n, ReadablePaths(d, root))

TotalChars(d, root) ==
    LET n(p) == chars_count(Lookup(d, p))
    IN  SumOver(n, ReadablePaths(d, root))

\* the twelve persisted fields of a session
Persisted(s) ==
    << s.start_time, s.project_directory, s.initial_line_count,
       s.initial_char_count, s.final_line_count, s.final_char_count,
       s.lines_written, s.chars_written, s.files_created, s.files_modified,
       s.files_deleted, s.active_time_seconds >>

\* no project file differs between two disks (the record is not a project
\* file)
SameProjectFiles(d1, d2) == \A n \in Nodes \ {SessionFile} : d1[n] = d2[n]

\* the paths of a scan that are project files in the sense of spec section
\* 4.1: their own name does not start with "." (this leaves the session
\* record out of both snapshots)
Visible(paths) == { p \in paths : p[Len(p)] \notin DotNames }

\* C1: after start -> changes -> end, files_created is the set of paths in
\* the end scan that were not in the snapshot start took, and files_deleted
\* the set of paths of the start snapshot missing from the end scan.
C1_CreatedDeletedSinceStart ==
    EndDone =>
        LET atStart == Visible(Unwrap(Unwrap(started).initial_files))
            atEnd == Visible(endProc.current_files)
        IN  /\ Ended.files_created = Some(atEnd \ atStart)
            /\ Ended.files_deleted = Some(atStart \ atEnd)

\* C2: after start -> changes -> end, files_modified is the set of paths
\* present at start and at end whose hash at end differs from the hash
\* start took.
C2_ModifiedSinceStart ==
    EndDone =>
        LET atStart == Visible(Unwrap(Unwrap(started).initial_files))
            hashStart == Unwrap(Unwrap(started).initial_file_hashes)
            atEnd == Visible(endProc.current_files)
            hashEnd == endProc.current_file_hashes
        IN  Ended.files_modified =
                Some({ p \in atStart \cap atEnd :
                         /\ p \in DOMAIN hashStart
                         /\ p \in DOMAIN hashEnd
                         /\ hashStart[p] # hashEnd[p] })

\* C3: a successful end sets final_line_count / final_char_count to the
\* totals over the in-scope readable files at that moment, and
\* lines_written / chars_written to those totals minus the initial counts
\* persisted at start (which the record still holds); the differences are
\* signed.
C3_WrittenIsFinalMinusInitial ==
    [][ EndStep =>
          LET s == Unwrap(endProc'.session)
              rec == Deserialize(disk[SessionFile][2])
              lines == TotalLines(disk, s.project_directory)
              chars == TotalChars(disk, s.project_directory)
          IN  /\ rec.initial_line_count = Unwrap(started).initial_line_count
              /\ rec.initial_char_count = Unwrap(started).initial_char_count
              /\ s.final_line_count = Some(lines)
              /\ s.final_char_count = Some(chars)
              /\ s.lines_written = Some(lines - rec.initial_line_count)
              /\ s.chars_written = Some(chars - rec.initial_char_count) ]_vars

\* C3 witness: an end has reported a negative number of lines written.
C3_Witness ==
    /\ EndDone
    /\ Unwrap(Ended.lines_written) < 0
    /\ Unwrap(Ended.chars_written) < 0

\* C4: diff symmetry.  When no project file differs between start and end,
\* end yields empty files_created / files_deleted / files_modified and
\* lines_written = chars_written = 0, whatever the project root.
C4_DiffSymmetry ==
    [][ (EndStep /\ SameProjectFiles(startDisk, disk)) =>
          LET s == Unwrap(endProc'.session)
          IN  /\ s.files_created = Some({})
              /\ s.files_deleted = Some({})
              /\ s.files_modified = Some({})
              /\ s.lines_written = Some(0)
              /\ s.chars_written = Some(0) ]_vars

\* C5: a successful end removes the record; an end invoked after it (before
\* any new start) reports "No active session found."; and the record exists
\* in every state in which the session is Open.
C5_EndRemovesRecord ==
    [][ /\ EndStep => ~exists(disk', SessionFile)
        /\ phase' = "Open" => exists(disk', SessionFile)
        /\ (EndInvoked /\ phase = "Ended") =>
               (out'.exit = "ok" /\ out'.msg = "No active session found.") ]_vars

\* C5 witness: a session was ended and a second end found no session.
C5_Witness ==
    /\ phase = "Ended"
    /\ out.cmd = "end"
    /\ out.msg = "No active session found."
    /\ ~exists(disk, SessionFile)

\* C6: end invoked when no record exists reports "No active session found",
\* exits normally and leaves the filesystem and the session state as they
\* were.
C6_EndWithoutSessionIsNoOp ==
    [][ (EndInvoked /\ ~exists(disk, SessionFile)) =>
          /\ out'.exit = "ok"
          /\ out'.msg = "No active session found."
          /\ disk' = disk
          /\ phase' = phase
          /\ started' = started ]_vars

\* C6 witness: end was run with no prior start and reported no session.
C6_Witness ==
    /\ phase = "NotStarted"
    /\ out = [cmd |-> "end", arg |-> <<>>, exit |-> "ok",
              msg |-> "No active session found."]
    /\ disk = InitDisk

\* C7: start fails for every root that is not an existing directory, and
\* then leaves the record as it was.
C7_StartRejectsInvalidRoot ==
    [][ (out'.cmd = "start" /\ ~is_dir(disk, out'.arg)) =>
          (out'.exit = "err" /\ disk' = disk) ]_vars

\* the active seconds a stream of pulses earns by the rule of spec section
\* 4.5: the gaps between consecutive pulses (the first one measured from
\* last), in whole seconds, that are below the 300 s cutoff
RECURSIVE GapSum(_, _)
GapSum(last, log) ==
    IF log = <<>> THEN 0
    ELSE LET gap == (Head(log) - last) \div 1000
         IN  (IF gap < 300 THEN gap ELSE 0) + GapSum(Head(log), Tail(log))

\* the listener has saved at (or there was nothing to save since) its last
\* pulse
Flushed ==
    \/ pulses = <<>>
    \/ /\ listener.pc = "poll"
       /\ listener.last_save = pulses[Len(pulses)]

\* C8: with activity tracking, the active_time_seconds that end reads from
\* the record is the sum of the below-cutoff gaps between the pulses (once
\* the listener has saved after its last pulse); pulses at 0 s, 10 s and
\* 400 s give 10.
C8_ActiveTimeIsGapSum ==
    (endProc.pc = "loaded" /\ Flushed) =>
        Unwrap(endProc.session).active_time_seconds =
            GapSum(Unwrap(started).start_time, pulses)

\* C9: record_activity, with elapsed the whole seconds since last_activity,
\* adds exactly elapsed to active_time_seconds when elapsed < 300 and
\* nothing when elapsed >= 300, and in both cases sets last_activity to the
\* current time.
C9_IdleCutoffBoundary ==
    [][ (used'.pulses = used.pulses + 1) =>
          LET pre == Unwrap(listener.session)
              post == Unwrap(listener'.session)
              elapsed == (now - Unwrap(pre.last_activity)) \div 1000
          IN  /\ post.last_activity = Some(now)
              /\ IsSome(pre.last_activity) =>
                    post.active_time_seconds =
                        pre.active_time_seconds
                          + (IF elapsed < 300 THEN elapsed ELSE 0) ]_vars

\* C9 witness: a pulse 299 s after the session began was credited 299 s and
\* the next pulse, exactly 300 s later, was credited nothing.
C9_Witness ==
    /\ pulses = <<299000, 599000>>
    /\ IsSome(listener.session)
    /\ Unwrap(listener.session).active_time_seconds = 299
    /\ Unwrap(listener.session).last_activity = Some(599000)

\* C10: a load that follows a save returns the twelve persisted fields as
\* they were saved, and transient fields computed from the filesystem as it
\* is at the load: the in-scope path set, the hashes of its readable files,
\* and the load time as last_activity.
C10_SaveLoadRoundTrip ==
    [][ LoadStep =>
          LET s == Unwrap(endProc'.session)
              saved == Unwrap(started)
              json == disk[SessionFile][2]
              live == InScopePaths(disk, saved.project_directory)
              readable == ReadablePaths(disk, saved.project_directory)
          IN  /\ Persisted(s) = Persisted(saved)
              /\ \A i \in 1..Len(json) :
                    json[i][1] \notin {"initial_files", "last_activity",
                                       "initial_file_hashes"}
              /\ s.initial_files = Some(live)
              /\ s.initial_file_hashes =
                    Some([p \in readable |-> Hash(Lookup(disk, p))])
              /\ s.last_activity = Some(now) ]_vars

\* C10 witness: an end has loaded a record saved by start after the tree
\* changed, so its path set and hashes differ from those start held.
C10_Witness ==
    /\ endProc.pc = "loaded"
    /\ Persisted(Unwrap(endProc.session)) = Persisted(Unwrap(started))
    /\ Unwrap(endProc.session).initial_files # Unwrap(started).initial_files
    /\ Unwrap(endProc.session).initial_file_hashes
         # Unwrap(started).initial_file_hashes

\* a path has a hidden name below its root: one of its components after the
\* root (a directory on the way, or the file itself) starts with "."
HasHiddenName(p, root) ==
    \E i \in (Len(root) + 1)..Len(p) : p[i] \in DotNames

\* the totals over the readable in-scope files that have no hidden name
UnhiddenLines(d, root) ==
    LET n(p) == lines_count(Lookup(d, p))
    IN  SumOver(n, { p \in ReadablePaths(d, root) : ~HasHiddenName(p, root) })

UnhiddenChars(d, root) ==
    LET n(p) == chars_count(Lookup(d, p))
    IN  SumOver(n, { p \in ReadablePaths(d, root) : ~HasHiddenName(p, root) })

\* C11: hidden-name exclusion.  The path set start scanned holds no file
\* whose own name starts with "." and no file under a directory whose name
\* starts with "." (so never the session record), and the counts start took
\* are the totals over the files without a hidden name; the same for the
\* path set and the counts of end.
C11_HiddenNameExclusion ==
    /\ IsSome(started) =>
          LET s == Unwrap(started)
              root == s.project_directory
          IN  /\ \A p \in Unwrap(s.initial_files) : ~HasHiddenName(p, root)
              /\ s.initial_line_count = UnhiddenLines(startDisk, root)
              /\ s.initial_char_count = UnhiddenChars(startDisk, root)
    /\ EndDone =>
          \A p \in endProc.current_files :
              ~HasHiddenName(p, Ended.project_directory)

\* the active_time_seconds of the record on disk d
RecordActive(d) == Deserialize(d[SessionFile][2]).active_time_seconds

\* C12: while a session is Open, the active_time_seconds of the persisted
\* record is never negative, and no step of the listener (its load, its
\* record_activity, its save) or of the clock makes it smaller.
C12_ActiveTimeMonotone ==
    [][ /\ (phase' = "Open" /\ exists(disk', SessionFile)) =>
               RecordActive(disk') >= 0
        /\ ( /\ phase = "Open"
             /\ phase' = "Open"
             /\ out'.cmd # "start"
             /\ exists(disk, SessionFile)
             /\ exists(disk', SessionFile) ) =>
               RecordActive(disk') >= RecordActive(disk) ]_vars

\* C12 witness: the listener of an Open session has handled a pulse and
\* written the record after the start did.
C12_Witness ==
    /\ phase = "Open"
    /\ listener.alive
    /\ pulses # <<>>
    /\ listener.last_save > Unwrap(started).start_time
    /\ exists(disk, SessionFile)
    /\ RecordActive(disk) >= 0

\* C13: no way back from Ended.  Once end has removed the record, no step
\* other than a new start (in particular no step of a listener that loaded
\* the record before the removal) brings the record back.
C13_NoReturnFromEnded ==
    [][ ( /\ phase = "Ended"
          /\ ~exists(disk, SessionFile)
          /\ out'.cmd # "start" ) => ~exists(disk', SessionFile) ]_vars

\* the pulses the listener had handled when it last saved
SavedPulses == SelectSeq(pulses, LAMBDA t : t <= listener.last_save)

\* C14: autosave bounds the loss.  While the listener of an Open session
\* runs, the record holds at least the active seconds earned by the pulses
\* up to the last save: what a crash can lose stems from the pulses since
\* that save only, and no earlier increment is ever dropped.
C14_AutosaveBoundsLoss ==
    ( /\ phase = "Open"
      /\ listener.alive
      /\ exists(disk, SessionFile) ) =>
        RecordActive(disk) >= GapSum(Unwrap(started).start_time, SavedPulses)

\* C15: after every successful end, with the snapshot start took as the
\* initial one: files_created, files_deleted and files_modified are
\* pairwise disjoint; files_created holds no path of the start snapshot;
\* files_deleted holds only paths of it; files_modified holds only paths
\* that are both in the start snapshot and in the end scan.
C15_DiffResultInvariant ==
    EndDone =>
        LET atStart == Unwrap(Unwrap(started).initial_files)
            atEnd == endProc.current_files
            created == Unwrap(Ended.files_created)
            deleted == Unwrap(Ended.files_deleted)
            modified == Unwrap(Ended.files_modified)
        IN  /\ created \cap deleted = {}
            /\ created \cap modified = {}
            /\ deleted \cap modified = {}
            /\ created \cap atStart = {}
            /\ deleted \subseteq atStart
            /\ modified \subseteq (atStart \cap atEnd)

\* C16: a walk tolerates the tree changing under it.  A walk that has
\* ended, with its root still a directory, has succeeded: an entry or a
\* directory that went away after it was listed was skipped.
C16_WalkToleratesRace ==
    (walk.pc = "done" /\ is_dir(disk, walk.root)) => walk.ok

\* a step of a command (start, or either half of end) that exited with an
\* error
CommandFailed == out'.cmd \in {"start", "end"} /\ out'.exit = "err"

\* the project root the command of this step works on
CommandRoot ==
    IF out'.cmd = "start" THEN out'.arg
    ELSE IF endProc.pc = "loaded" THEN Unwrap(endProc.session).project_directory
    ELSE Deserialize(disk[SessionFile][2]).project_directory

\* C17: unreadable means unchanged.  In a successful end, a path that is in
\* the initial and in the final path set but has no entry in the initial
\* or in the final hash map (its text could not be read) is not in
\* files_modified; and no command fails because a file cannot be read: a
\* command that fails had a root that is not a directory.
C17_UnreadableIsUnchanged ==
    [][ /\ EndStep =>
              LET s == Unwrap(endProc.session)
                  common == Unwrap(s.initial_files) \cap endProc'.current_files
                  initial_hashes == Unwrap(s.initial_file_hashes)
                  final_hashes == endProc'.current_file_hashes
                  modified == Unwrap(Unwrap(endProc'.session).files_modified)
              IN  /\ \A p \in endProc'.current_files :
                        p \in DOMAIN final_hashes <=>
                            IsSome(read_to_string(disk, p))
                  /\ \A p \in common :
                        (p \notin DOMAIN initial_hashes
                            \/ p \notin DOMAIN final_hashes) => p \notin modified
        /\ CommandFailed => ~is_dir(disk, CommandRoot) ]_vars

\* C17 witness: an end succeeded although a.py, readable and hashed when
\* the session was loaded, had become unreadable by the final scan; a.py
\* is in both path sets and is not reported as modified.
C17_Witness ==
    /\ EndDone
    /\ disk[<<"proj", "a.py">>] = Text("bin")
    /\ <<"proj", "a.py">> \in Unwrap(Ended.initial_files)
    /\ <<"proj", "a.py">> \in endProc.current_files
    /\ <<"proj", "a.py">> \in DOMAIN Unwrap(Ended.initial_file_hashes)
    /\ <<"proj", "a.py">> \notin DOMAIN endProc.current_file_hashes
    /\ <<"proj", "a.py">> \notin Unwrap(Ended.files_modified)

\* the seven fields that only Session::end fills in
EndFields(s) ==
    << s.final_line_count, s.final_char_count, s.lines_written,
       s.chars_written, s.files_created, s.files_modified, s.files_deleted >>

NoEndFields == <<None, None, None, None, None, None, None>>

\* C18: no persisted Ended state.  A record on disk, whoever wrote it, has
\* null final counts, written counts and file sets; a session as loaded has
\* them null too, and only the in-memory session of a finished end has them
\* all set.
C18_NoPersistedEnded ==
    /\ exists(disk, SessionFile) =>
          EndFields(Deserialize(disk[SessionFile][2])) = NoEndFields
    /\ endProc.pc = "loaded" =>
          EndFields(Unwrap(endProc.session)) = NoEndFields
    /\ (listener.alive /\ listener.pc = "loaded") =>
          EndFields(Unwrap(listener.session)) = NoEndFields
    /\ EndDone =>
          \A i \in 1..Len(EndFields(Ended)) : IsSome(EndFields(Ended)[i])

\* C18 witness: an end has finished, so its in-memory session has all end
\* fields set, and a record written after it by the listener is on disk.
C18_Witness ==
    /\ EndDone
    /\ IsSome(Ended.final_line_count)
    /\ IsSome(Ended.files_modified)
    /\ exists(disk, SessionFile)
    /\ Deserialize(disk[SessionFile][2]).final_line_count = None

\* C19: start does not look for an existing record.  A start with a root
\* that is a directory, run while a session is Open, succeeds and replaces
\* the record: the record then carries this start's time, root and initial
\* counts, no active time and no end fields; the session stays Open; and
\* the record is the only file the start touches (there is one record).
C19_StartOverwritesOpenSession ==
    [][ (out'.cmd = "start" /\ phase = "Open" /\ is_dir(disk, out'.arg)) =>
          /\ out'.exit = "ok"
          /\ phase' = "Open"
          /\ exists(disk', SessionFile)
          /\ LET rec == Deserialize(disk'[SessionFile][2])
             IN  /\ rec.start_time = now
                 /\ rec.project_directory = out'.arg
                 /\ rec.initial_line_count = TotalLines(disk, out'.arg)
                 /\ rec.initial_char_count = TotalChars(disk, out'.arg)
                 /\ rec.active_time_seconds = 0
                 /\ EndFields(rec) = NoEndFields
                 /\ Persisted(rec) = Persisted(Unwrap(started'))
          /\ SameProjectFiles(disk, disk') ]_vars

\* C19 witness: a second start, later than the first and after the tree
\* was edited, has replaced the record of the first: the record has the
\* later start time and counts that differ from those of the first.
C19_Witness ==
    /\ used.starts = 2
    /\ phase = "Open"
    /\ now > 0
    /\ used.changes > 0
    /\ exists(disk, SessionFile)
    /\ Deserialize(disk[SessionFile][2]).start_time = now
    /\ Deserialize(disk[SessionFile][2]).project_directory = <<"proj">>
    /\ Deserialize(disk[SessionFile][2]).initial_line_count
         # TotalLines(InitDisk, <<"proj">>)

\* C20: end never writes the record and removes it only as its last step.
\* No step of an end changes the disk except the successful last one,
\* which removes the record and nothing else; an end that fails, in its
\* load or later, leaves the disk as it was and the session state as it
\* was, so that an Open session is still Open with its record in place.
C20_FailedEndKeepsRecord ==
    [][ out'.cmd = "end" =>
          /\ EndStep => disk' = [disk EXCEPT ![SessionFile] = Absent]
          /\ ~EndStep => disk' = disk
          /\ out'.exit = "err" => (disk' = disk /\ phase' = phase)
          /\ (out'.exit = "err" /\ phase = "Open") =>
                /\ exists(disk', SessionFile)
                /\ disk'[SessionFile] = disk[SessionFile] ]_vars

\* C20 witness: an end has failed while the session was Open, and the
\* record is still exactly what start wrote.
C20_Witness ==
    /\ out.cmd = "end"
    /\ out.exit = "err"
    /\ phase = "Open"
    /\ endProc = IdleEnd
    /\ disk[SessionFile] = Json(Serialize(Unwrap(started)))

====
